---------------------------- MODULE Spec2Model ----------------------------
(***************************************************************************)
(* Model of pyani/pyani_graphics.py: the two heatmap renderers,            *)
(* heatmap_seaborn and heatmap_mpl, as operations on the caller's objects  *)
(* (the DataFrame, the value range, the label map, the class map) and on   *)
(* the one piece of process-wide state a rendering call touches, the       *)
(* plotting context's font scale.                                          *)
(*                                                                         *)
(* Conventions.                                                            *)
(*  - Figure sizes are fixed-point numbers in 1/FigUnit inch, heatmap      *)
(*    values in 1/ValUnit; a font scale is a fraction <<num, den>>.        *)
(*  - Strings (identifiers, labels, categories) are integers: only their   *)
(*    equality and their sort order matter to the code.                    *)
(*  - A dict is the sequence of its <<key, value>> items in iteration      *)
(*    order (insertion order, as Python 3.7+ guarantees).                  *)
(*  - An optional argument is a record [some, val]; None has some = FALSE. *)
(*  - round() is Python 3's: a tie goes to the even multiple.              *)
(*  - The clustering library's answer (the dendrogram's leaf order) is     *)
(*    chosen nondeterministically among LeafOrders.                        *)
(***************************************************************************)
EXTENDS Integers, Sequences, FiniteSets, TLC

VARIABLES
    font_scale,   \* the plotting context's font scale (global, seaborn/matplotlib rc)
    dfr,          \* the caller's DataFrame
    vmin, vmax,   \* the caller's value range arguments (optional)
    labels,       \* the caller's label map (optional dict)
    classes,      \* the caller's class map (optional dict, passed by reference)
    pc,           \* "idle": arguments prepared; "done": a rendering call returned
    frame         \* what the last rendering call computed and drew

vars == <<font_scale, dfr, vmin, vmax, labels, classes, pc, frame>>

---------------------------------------------------------------------------
(* Bounds of the model *)

MaxDim == 3        \* small matrices have 0..MaxDim rows
MaxKey == 2        \* the label and class maps have keys among 1..MaxKey
Around == 1        \* rows tried on each side of a figure-size threshold
MaxDecade == 3     \* value ranges reach up to 10^MaxDecade

(* Fixed-point denominators and the program's literals *)

FigUnit == 1000          \* figure sizes in 1/1000 (0.175 has three decimals)
ValUnit == 1600          \* values in 1/1600: 0.01 is 16 units, 0.0025 is 4
maxfigsize == 120        \* heatmap_seaborn: maxfigsize = 120
minfigsize == 8          \* max(8, ...) in both renderers
seaborn_rowsize == 1100  \* dfr.shape[0] * 1.1, in 1/FigUnit
mpl_rowsize == 175       \* dfsize * 0.175, in 1/FigUnit
vdiff_floor == 16        \* max(vmax - vmin, 0.01), in 1/ValUnit
roundcut == 16000        \* if vmax > 10, in 1/ValUnit
mpl_tickfontsize == 8    \* label.set_fontsize(8)

---------------------------------------------------------------------------
(* Python built-ins *)

Min(a, b) == IF a <= b THEN a ELSE b
Max(a, b) == IF a >= b THEN a ELSE b

None == [some |-> FALSE, val |-> <<>>]
Some(x) == [some |-> TRUE, val |-> x]

DictKeys(d) == {d[i][1] : i \in 1..Len(d)}
DictHas(d, k) == k \in DictKeys(d)
DictIdx(d, k) == CHOOSE i \in 1..Len(d) : d[i][1] = k
\* d[k]; only used where k is a key
DictAt(d, k) == d[DictIdx(d, k)][2]
\* d.get(k, default)
DictGet(d, k, default) == IF DictHas(d, k) THEN DictAt(d, k) ELSE default
\* d[k] = v: a new key goes last, an old key keeps its place
DictSet(d, k, v) ==
    IF DictHas(d, k) THEN [d EXCEPT ![DictIdx(d, k)] = <<k, v>>]
    ELSE Append(d, <<k, v>>)
\* list(d.values())
DictValues(d) == [i \in 1..Len(d) |-> d[i][2]]
SeqRange(s) == {s[i] : i \in 1..Len(s)}

\* sorted(list(S))
RECURSIVE sorted(_)
sorted(S) ==
    IF S = {} THEN <<>>
    ELSE LET m == CHOOSE x \in S : \A y \in S : x <= y
         IN <<m>> \o sorted(S \ {m})

RECURSIVE Pow10(_)
Pow10(e) == IF e <= 0 THEN 1 ELSE 10 * Pow10(e - 1)

\* floor(log10(v)) for v >= 1.0, v in 1/ValUnit
RECURSIVE floor_log10_from(_, _)
floor_log10_from(v, p) ==
    IF Pow10(p + 1) * ValUnit <= v THEN floor_log10_from(v, p + 1) ELSE p
floor_log10(v) == floor_log10_from(v, 0)

\* int(x): truncation toward zero
py_int(x) ==
    IF x >= 0 THEN (x \div ValUnit) * ValUnit ELSE 0 - (((0 - x) \div ValUnit) * ValUnit)

\* round(x, -e) for e >= 0: the nearest multiple of 10^e, a tie to the even one
py_round(x, e) ==
    LET g == Pow10(e) * ValUnit
        q == x \div g
        r == x - q * g
    IN  IF 2 * r < g THEN q * g
        ELSE IF 2 * r > g THEN (q + 1) * g
        ELSE IF q % 2 = 0 THEN q * g ELSE (q + 1) * g

---------------------------------------------------------------------------
(* The DataFrame: n rows and columns keyed by the identifiers 1..n, diag   *)
(* on the diagonal and off elsewhere.                                      *)

dfr_index(d) == [i \in 1..d.n |-> i]
dfr_shape0(d) == d.n
\* dfr.values.min() and .max(); numpy raises ValueError on an empty array
values_empty(d) == d.n = 0
values_min(d) == IF d.n = 1 THEN d.diag ELSE Min(d.diag, d.off)
values_max(d) == IF d.n = 1 THEN d.diag ELSE Max(d.diag, d.off)

\* The leaf orders the dendrograms may report: positions into dfr.index
LeafOrders(n) == {[i \in 1..n |-> i], [i \in 1..n |-> n + 1 - i]}

NoFrame ==
    [renderer |-> "none", raised |-> FALSE, figsize |-> 0, font_scale |-> <<1, 1>>,
     rowleaves |-> <<>>, colleaves |-> <<>>,
     xticklabels |-> <<>>, yticklabels |-> <<>>, tickfontsize |-> 0,
     col_colors |-> <<>>, row_colors |-> <<>>,
     vmin |-> None, vmax |-> None, vdiff |-> 0, cbticks |-> <<>>]

---------------------------------------------------------------------------
(* heatmap_seaborn *)

seaborn_calcfigsize(d) == dfr_shape0(d) * seaborn_rowsize

\* a variant that forgets the maximum
seaborn_figsize_nomax(d) == Max(minfigsize * FigUnit, seaborn_calcfigsize(d))

seaborn_figsize(d) ==
    Min(Max(minfigsize * FigUnit, seaborn_calcfigsize(d)), maxfigsize * FigUnit)

\* if figsize == maxfigsize: sns.set_context("notebook", font_scale=scale)
seaborn_set_context(d, current) ==
    IF seaborn_figsize(d) = maxfigsize * FigUnit
    THEN <<maxfigsize * FigUnit, seaborn_calcfigsize(d)>>
    ELSE current

\* sns.cubehelix_palette(n): n distinct colours; colour i of the n-colour
\* palette is <<n, i>>
cubehelix_palette(n) == [i \in 1..n |-> <<n, i>>]
NaN == <<0, 0>>

seaborn_levels(c) == sorted(SeqRange(DictValues(c)))

\* paldict = {lvl: pal for (lvl, pal) in zip(levels, pal)}
seaborn_paldict(c) ==
    LET levels == seaborn_levels(c)
        pal == cubehelix_palette(Len(levels))
    IN  [i \in 1..Len(levels) |-> <<levels[i], pal[i]>>]

\* lvl_pal = {cls: paldict[lvl] for (cls, lvl) in classes.items()}
seaborn_lvl_pal(c) ==
    LET paldict == seaborn_paldict(c)
    IN  [i \in 1..Len(c) |-> <<c[i][1], DictAt(paldict, c[i][2])>>]

\* col_cb = pd.Series(dfr.index).map(lvl_pal): NaN where the key is missing
seaborn_col_cb(d, c) ==
    IF c.some
    THEN LET lvl_pal == seaborn_lvl_pal(c.val)
         IN  [i \in 1..d.n |-> DictGet(lvl_pal, dfr_index(d)[i], NaN)]
    ELSE <<>>

seaborn_newlabels(d, l) ==
    IF l.some
    THEN [i \in 1..d.n |-> DictGet(l.val, dfr_index(d)[i], dfr_index(d)[i])]
    ELSE [i \in 1..d.n |-> dfr_index(d)[i]]

\* sns.clustermap draws rows and columns in leaf order
reorder(s, leaves) ==
    IF s = <<>> THEN <<>> ELSE [p \in 1..Len(leaves) |-> s[leaves[p]]]

heatmap_seaborn ==
    /\ \E rl \in LeafOrders(dfr.n), cl \in LeafOrders(dfr.n) :
          /\ font_scale' = seaborn_set_context(dfr, font_scale)
          /\ frame' =
               [renderer |-> "seaborn", raised |-> FALSE,
                figsize |-> seaborn_figsize(dfr),
                font_scale |-> font_scale',
                rowleaves |-> rl, colleaves |-> cl,
                xticklabels |-> reorder(seaborn_newlabels(dfr, labels), cl),
                yticklabels |-> reorder(seaborn_newlabels(dfr, labels), rl),
                tickfontsize |-> 0,
                col_colors |-> reorder(seaborn_col_cb(dfr, classes), cl),
                row_colors |-> reorder(seaborn_col_cb(dfr, classes), rl),
                vmin |-> vmin, vmax |-> vmax, vdiff |-> 0, cbticks |-> <<>>]
    /\ pc' = "done"
    /\ UNCHANGED <<dfr, vmin, vmax, labels, classes>>

---------------------------------------------------------------------------
(* heatmap_mpl *)

\* if vmin is None: vmin = dfr.values.min()
mpl_vmin(d, v) == IF v.some THEN v.val ELSE values_min(d)
mpl_vmax(d, v) == IF v.some THEN v.val ELSE values_max(d)
\* min() or max() of an empty array raises ValueError before anything is drawn
mpl_raises(d, lo, hi) == values_empty(d) /\ (~lo.some \/ ~hi.some)

\* a variant without the minimum width
mpl_vdiff_nofloor(lo, hi) == hi - lo

\* vdiff = max(vmax - vmin, 0.01)
mpl_vdiff(lo, hi) == Max(hi - lo, vdiff_floor)

\* (0, 0.25, 0.5, 0.75, 1), in quarters
tick_quarters == <<0, 1, 2, 3, 4>>

\* a variant that rounds to the leading digit
mpl_exponent_leading(hi) == floor_log10(hi)

\* exponent = int(floor(log10(vmax))) - 1
mpl_exponent(hi) == floor_log10(hi) - 1

\* cbticks = [vmin + e * vdiff for e in (0, 0.25, 0.5, 0.75, 1)], and
\* if vmax > 10: cbticks = [int(round(e, -exponent)) for e in cbticks]
mpl_cbticks(lo, hi) ==
    LET vdiff == mpl_vdiff(lo, hi)
        raw == [k \in 1..Len(tick_quarters) |-> lo + (tick_quarters[k] * vdiff) \div 4]
    IN  IF hi > roundcut
        THEN [k \in 1..Len(raw) |-> py_int(py_round(raw[k], mpl_exponent(hi)))]
        ELSE raw

\* a variant that clamps at maxfigsize as heatmap_seaborn does
mpl_figsize_clamped(d) ==
    Min(Max(minfigsize * FigUnit, dfr_shape0(d) * mpl_rowsize), maxfigsize * FigUnit)

\* figsize = max(8, dfsize * 0.175)
mpl_figsize(d) == Max(minfigsize * FigUnit, dfr_shape0(d) * mpl_rowsize)

\* for name in dfr.index[coldend['leaves']]:
\*     if name not in classes: classes[name] = name
RECURSIVE mpl_extend_classes(_, _)
mpl_extend_classes(c, names) ==
    IF names = <<>> THEN c
    ELSE LET name == Head(names)
         IN  mpl_extend_classes(IF DictHas(c, name) THEN c ELSE DictSet(c, name, name),
                                Tail(names))

\* classdict = {cls: idx for (idx, cls) in enumerate(classes.values())}
RECURSIVE mpl_classdict_from(_, _, _)
mpl_classdict_from(vals, idx, acc) ==
    IF idx >= Len(vals) THEN acc
    ELSE mpl_classdict_from(vals, idx + 1, DictSet(acc, vals[idx + 1], idx))
mpl_classdict(c) == mpl_classdict_from(DictValues(c), 0, <<>>)

\* a variant that numbers the identifier's entry instead of its class
mpl_cbvalue_byname(c, classdict, name) == DictIdx(c, name) - 1

\* try: cblist.append(classdict[classes[name]])
\* except KeyError: cblist.append(classdict[name])
mpl_cbvalue(c, classdict, name) ==
    IF DictHas(c, name) /\ DictHas(classdict, DictAt(c, name))
    THEN DictAt(classdict, DictAt(c, name))
    ELSE DictAt(classdict, name)

\* col_cblist (over the column leaves) and row_cblist (over the row leaves)
mpl_cblist(c, names) ==
    LET classdict == mpl_classdict(c)
    IN  [p \in 1..Len(names) |-> mpl_cbvalue(c, classdict, names[p])]

\* a variant with labels.get(lab): no fall back, None (0) for a missing key
mpl_ticklabels_nofallback(names, l) ==
    IF l.some /\ Len(l.val) > 0
    THEN [p \in 1..Len(names) |-> DictGet(l.val, names[p], 0)]
    ELSE names

\* rowticklabels = dfr.index[rowdend['leaves']]
\* if labels: rowticklabels = [labels.get(lab, lab) for lab in rowticklabels]
mpl_ticklabels(names, l) ==
    IF l.some /\ Len(l.val) > 0
    THEN [p \in 1..Len(names) |-> DictGet(l.val, names[p], names[p])]
    ELSE names

mpl_row_names(d, rl) == reorder(dfr_index(d), rl)

mpl_col_names(d, cl) == reorder(dfr_index(d), cl)

heatmap_mpl ==
    /\ \E rl \in LeafOrders(dfr.n), cl \in LeafOrders(dfr.n) :
          IF mpl_raises(dfr, vmin, vmax)
          THEN /\ frame' = [NoFrame EXCEPT !.renderer = "mpl", !.raised = TRUE]
               /\ classes' = classes
          ELSE LET lo == mpl_vmin(dfr, vmin)
                   hi == mpl_vmax(dfr, vmax)
                   rownames == mpl_row_names(dfr, rl)
                   colnames == mpl_col_names(dfr, cl)
                   cls == IF classes.some
                          THEN Some(mpl_extend_classes(classes.val, colnames))
                          ELSE classes
               IN  /\ classes' = cls
                   /\ frame' =
                        [renderer |-> "mpl", raised |-> FALSE,
                         figsize |-> mpl_figsize(dfr),
                         font_scale |-> font_scale,
                         rowleaves |-> rl, colleaves |-> cl,
                         xticklabels |-> mpl_ticklabels(colnames, labels),
                         yticklabels |-> mpl_ticklabels(rownames, labels),
                         tickfontsize |-> mpl_tickfontsize,
                         col_colors |-> IF cls.some THEN mpl_cblist(cls.val, colnames)
                                        ELSE <<>>,
                         row_colors |-> IF cls.some THEN mpl_cblist(cls.val, rownames)
                                        ELSE <<>>,
                         vmin |-> Some(lo), vmax |-> Some(hi),
                         vdiff |-> mpl_vdiff(lo, hi),
                         cbticks |-> mpl_cbticks(lo, hi)]
    /\ pc' = "done"
    /\ UNCHANGED <<font_scale, dfr, vmin, vmax, labels>>

---------------------------------------------------------------------------
(* The caller: it builds the arguments of the next call.  A figure left    *)
(* from an earlier call goes out of scope.                                  *)

SetDfr(D) ==
    /\ \E d \in D : dfr' = d
    /\ pc' = "idle" /\ frame' = NoFrame
    /\ UNCHANGED <<font_scale, vmin, vmax, labels, classes>>

SetVmin(V) ==
    /\ \E v \in V : vmin' = v
    /\ pc' = "idle" /\ frame' = NoFrame
    /\ UNCHANGED <<font_scale, dfr, vmax, labels, classes>>

SetVmax(V) ==
    /\ \E v \in V : vmax' = v
    /\ pc' = "idle" /\ frame' = NoFrame
    /\ UNCHANGED <<font_scale, dfr, vmin, labels, classes>>

SetLabels(L) ==
    /\ \E l \in L : labels' = l
    /\ pc' = "idle" /\ frame' = NoFrame
    /\ UNCHANGED <<font_scale, dfr, vmin, vmax, classes>>

SetClasses(C) ==
    /\ \E c \in C : classes' = c
    /\ pc' = "idle" /\ frame' = NoFrame
    /\ UNCHANGED <<font_scale, dfr, vmin, vmax, labels>>

(* Input domains *)

Matrix(n, diag, off) == [n |-> n, diag |-> diag, off |-> off]

\* an ANI identity matrix: 1.0 on the diagonal, 0.9 elsewhere
AniMatrix(n) == Matrix(n, ValUnit, (9 * ValUnit) \div 10)

Keys == 1..MaxKey
Categories == {2, 9}
LabelOf(k) == 100 + k

Perms(S) ==
    {p \in [1..Cardinality(S) -> S] : \A i, j \in 1..Cardinality(S) : i # j => p[i] # p[j]}

\* every dict with keys among K and values among V, in every insertion order
OrderedDicts(K, V) ==
    UNION {{[i \in 1..Cardinality(S) |-> <<p[i], f[p[i]]>>] : f \in [S -> V], p \in Perms(S)}
           : S \in SUBSET K}

MapDfrs == {AniMatrix(n) : n \in 0..MaxDim}
LabelMaps ==
    {None} \cup {Some([i \in 1..Cardinality(S) |-> <<sorted(S)[i], LabelOf(sorted(S)[i])>>])
                 : S \in SUBSET Keys}
ClassMaps == {None} \cup {Some(c) : c \in OrderedDicts(Keys, Categories)}

\* the smallest number of rows whose calculated size reaches limit
Knee(limit, rowsize) == (limit * FigUnit + rowsize - 1) \div rowsize
Thresholds ==
    {Knee(minfigsize, seaborn_rowsize), Knee(maxfigsize, seaborn_rowsize),
     Knee(minfigsize, mpl_rowsize), Knee(maxfigsize, mpl_rowsize)}
Sizes == (0..MaxDim) \cup {t + k : t \in Thresholds, k \in (0 - Around)..Around}
SizeDfrs == {AniMatrix(n) : n \in Sizes}

\* values in 1/ValUnit: 0, 0.9975, 1, 10.4, 10.6, 85, 99.5, and 1 and 1.5
\* times each power of ten up to 10^MaxDecade
TickVals ==
    {0, 1596, ValUnit, 16640, 16960, 85 * ValUnit, 159200}
    \cup {Pow10(k) * ValUnit : k \in 0..MaxDecade}
    \cup {(15 * Pow10(k) * ValUnit) \div 10 : k \in 0..MaxDecade}
TickRanges == {None} \cup {Some(v) : v \in TickVals}
TickDfrs ==
    {Matrix(n, v[1], v[2]) :
        n \in 0..MaxDim,
        v \in {<<ValUnit, (9 * ValUnit) \div 10>>, <<ValUnit, ValUnit>>,
               <<100 * ValUnit, 85 * ValUnit>>}}

---------------------------------------------------------------------------
(* Specifications.  Init is the state after the module is loaded: the     *)
(* plotting context is the library's default, nothing has been drawn.      *)

Init ==
    /\ font_scale = <<1, 1>>
    /\ dfr = AniMatrix(0)
    /\ vmin = None /\ vmax = None
    /\ labels = None /\ classes = None
    /\ pc = "idle"
    /\ frame = NoFrame

\* label and class maps over small matrices
Next ==
    \/ SetDfr(MapDfrs)
    \/ SetLabels(LabelMaps)
    \/ SetClasses(ClassMaps)
    \/ heatmap_seaborn
    \/ heatmap_mpl

Spec == Init /\ [][Next]_vars

\* matrix sizes around the figure-size thresholds
NextSize ==
    \/ SetDfr(SizeDfrs)
    \/ heatmap_seaborn
    \/ heatmap_mpl

SpecSize == Init /\ [][NextSize]_vars

\* value ranges
NextTicks ==
    \/ SetDfr(TickDfrs)
    \/ SetVmin(TickRanges)
    \/ SetVmax(TickRanges)
    \/ heatmap_seaborn
    \/ heatmap_mpl

SpecTicks == Init /\ [][NextTicks]_vars

---------------------------------------------------------------------------
(* Properties *)

Rendered(r) == pc = "done" /\ frame.renderer = r /\ ~frame.raised
RenderedAny == pc = "done" /\ ~frame.raised

\* the identifier drawn at position p of the rows, of the columns
RowId(p) == dfr_index(dfr)[frame.rowleaves[p]]
ColId(p) == dfr_index(dfr)[frame.colleaves[p]]

\* C1: heatmap_seaborn's figure side is min(max(8, 1.1 * n), 120) for every
\* number of rows n, so it lies in [8, 120].  (SpecSize)
C1_SeabornFigsizeClamped ==
    Rendered("seaborn") =>
        LET n == dfr.n
            f == frame.figsize
        IN  /\ 8 * FigUnit <= f /\ f <= 120 * FigUnit
            /\ (11 * n <= 80 => f = 8 * FigUnit)
            /\ (80 <= 11 * n /\ 11 * n <= 1200 => 10 * f = 11 * n * FigUnit)
            /\ (11 * n >= 1200 => f = 120 * FigUnit)

\* a matrix large enough that the maximum applies
C1_Witness == Rendered("seaborn") /\ 11 * dfr.n > 1200 /\ frame.figsize = 120 * FigUnit

ExpectedLabel(id) ==
    IF labels.some /\ DictHas(labels.val, id) THEN DictAt(labels.val, id) ELSE id

\* C3: in both renderers the tick label of an identifier is the label map's
\* entry when the map is given and has one, and the identifier otherwise; with
\* no label map every tick label on both axes is the identifier.  (Spec)
C3_TickLabelsFallBack ==
    RenderedAny =>
        /\ Len(frame.xticklabels) = dfr.n
        /\ Len(frame.yticklabels) = dfr.n
        /\ \A p \in 1..dfr.n :
              /\ frame.yticklabels[p] = ExpectedLabel(RowId(p))
              /\ frame.xticklabels[p] = ExpectedLabel(ColId(p))
        /\ (~labels.some =>
              \A p \in 1..dfr.n :
                 frame.yticklabels[p] = RowId(p) /\ frame.xticklabels[p] = ColId(p))

\* a label map with an entry for one identifier of the matrix and none for another
C3_Witness ==
    /\ Rendered("mpl")
    /\ labels.some
    /\ \E i, j \in 1..dfr.n : DictHas(labels.val, i) /\ ~DictHas(labels.val, j)
    /\ frame.rowleaves # frame.colleaves

HasClass(id) == DictHas(classes.val, id)
ClassOf(id) == DictAt(classes.val, id)

\* C4: with a class map, two identifiers get the same strip colour exactly
\* when they have the same category, an identifier has the same colour in the
\* row strip as in the column strip, and there are as many colours as
\* categories.  (Spec)
C4_OneColourPerCategory ==
    (RenderedAny /\ classes.some) =>
        /\ Len(frame.row_colors) = dfr.n
        /\ Len(frame.col_colors) = dfr.n
        /\ \A p, q \in 1..dfr.n :
              /\ (HasClass(RowId(p)) /\ HasClass(RowId(q))) =>
                    ((frame.row_colors[p] = frame.row_colors[q])
                        <=> (ClassOf(RowId(p)) = ClassOf(RowId(q))))
              /\ (HasClass(RowId(p)) /\ HasClass(ColId(q))) =>
                    ((frame.row_colors[p] = frame.col_colors[q])
                        <=> (ClassOf(RowId(p)) = ClassOf(ColId(q))))
        /\ Cardinality({frame.row_colors[p] : p \in {x \in 1..dfr.n : HasClass(RowId(x))}})
              = Cardinality({ClassOf(RowId(p)) : p \in {x \in 1..dfr.n : HasClass(RowId(x))}})

\* three identifiers in two categories, rows and columns drawn in different orders
C4_Witness ==
    /\ Rendered("mpl")
    /\ classes.some
    /\ dfr.n = 3
    /\ ClassOf(1) = ClassOf(2)
    /\ ClassOf(1) # ClassOf(3)
    /\ frame.rowleaves # frame.colleaves

\* the same items in another iteration order
Reorderings(c) ==
    {[i \in 1..Len(c) |-> c[p[i]]] : p \in Perms(1..Len(c))}

\* the row strip renderer r draws for class map c, the leaves being rl and cl
StripFor(r, c, rl, cl) ==
    IF r = "seaborn"
    THEN reorder(seaborn_col_cb(dfr, Some(c)), rl)
    ELSE mpl_cblist(mpl_extend_classes(c, mpl_col_names(dfr, cl)), mpl_row_names(dfr, rl))

\* C5: a category's colour depends only on its rank among the sorted distinct
\* categories: had the class map passed to a call held the same items in any
\* other iteration order, every identifier would have got the same colour.
\* (Spec)
C5_ColourByRank ==
    [][(pc' = "done" /\ ~frame'.raised /\ classes.some) =>
         \A c2 \in Reorderings(classes.val) :
            StripFor(frame'.renderer, c2, frame'.rowleaves, frame'.colleaves)
               = frame'.row_colors]_vars

\* C6: in heatmap_mpl a range with max equal to min raises nothing: the scale
\* width is max(vmax - vmin, 0.01), at least 0.01 for every vmin and vmax,
\* given or taken from the matrix, and there are five ticks.  (SpecTicks)
C6_ScaleWidthFloor ==
    (pc = "done" /\ frame.renderer = "mpl") =>
        /\ (dfr.n >= 1 \/ (vmin.some /\ vmax.some)) => ~frame.raised
        /\ ~frame.raised =>
              LET lo == frame.vmin.val
                  hi == frame.vmax.val
              IN  /\ (vmin.some => lo = vmin.val)
                  /\ (vmax.some => hi = vmax.val)
                  /\ frame.vdiff >= ValUnit \div 100
                  /\ frame.vdiff >= hi - lo
                  /\ (frame.vdiff = hi - lo \/ frame.vdiff = ValUnit \div 100)
                  /\ Len(frame.cbticks) = 5

\* a matrix whose values are all the same, its range taken from the matrix
C6_Witness ==
    /\ Rendered("mpl")
    /\ ~vmin.some /\ ~vmax.some
    /\ frame.vmin.val = frame.vmax.val
    /\ Len(frame.cbticks) = 5

\* four times the k-th unrounded tick, vmin + (k - 1) * vdiff / 4
RawTick4(k) == 4 * frame.vmin.val + (k - 1) * frame.vdiff

Abs(x) == IF x >= 0 THEN x ELSE 0 - x

\* C9: heatmap_mpl's colorbar ticks are vmin + k * vdiff / 4 for k = 0..4;
\* when vmax > 10 each is rounded to the nearest multiple of
\* 10^(floor(log10(vmax)) - 1), a granularity that never decreases as vmax
\* grows, and when vmax <= 10 they are not rounded.  (SpecTicks)
C9_TicksRoundedByMagnitude ==
    Rendered("mpl") =>
        LET hi == frame.vmax.val
        IN  /\ Len(frame.cbticks) = 5
            /\ (hi <= 10 * ValUnit =>
                  \A k \in 1..5 : 4 * frame.cbticks[k] = RawTick4(k))
            /\ (hi > 10 * ValUnit =>
                  \E e \in 0..MaxDecade :
                     LET g == Pow10(e) * ValUnit
                     IN  /\ 10 * g <= hi /\ hi \div 100 < g
                         /\ \A k \in 1..5 :
                               /\ frame.cbticks[k] % g = 0
                               /\ 2 * Abs(4 * frame.cbticks[k] - RawTick4(k)) <= 4 * g)
            /\ \A v \in TickVals :
                  (v > roundcut /\ v <= hi) => mpl_exponent(v) <= mpl_exponent(hi)

\* a range past 100 (ticks rounded to tens or more) where rounding moved a tick
C9_Witness ==
    /\ Rendered("mpl")
    /\ frame.vmax.val >= 100 * ValUnit
    /\ \E k \in 1..5 : 4 * frame.cbticks[k] # RawTick4(k)

\* C10: in heatmap_mpl, when vmin < vmax, every colorbar tick lies in
\* [vmin, vmax] and the five ticks are pairwise distinct.  (SpecTicks)
C10_TicksInRangeDistinct ==
    (Rendered("mpl") /\ frame.vmin.val < frame.vmax.val) =>
        /\ \A k \in 1..5 :
              frame.vmin.val <= frame.cbticks[k] /\ frame.cbticks[k] <= frame.vmax.val
        /\ \A j, k \in 1..5 : j # k => frame.cbticks[j] # frame.cbticks[k]

\* C7: a rendering call leaves the caller's matrix, label map and class map
\* as they were, also when the class map lacks an identifier.  (Spec)
C7_ArgumentsUnchanged ==
    [][pc' = "done" => (dfr' = dfr /\ labels' = labels /\ classes' = classes)]_vars

\* the font scale the call just made would have used as the first call
FirstCallFontScale ==
    IF frame.renderer = "seaborn" THEN seaborn_set_context(dfr, <<1, 1>>) ELSE <<1, 1>>

\* C8: whatever calls were made before, a call uses the font scale it would
\* use as the first call after loading: no call writes the global plotting
\* configuration.  (SpecSize)
C8_FontScaleAsFirstCall ==
    RenderedAny => frame.font_scale = FirstCallFontScale

====
